---- MODULE Spec2Model ----
(***************************************************************************)
(* A model of the git history reader (core/git.ts) and of the Gradle       *)
(* workspace plugin (plugins/embedded/gradle/gradle-project.ts) of         *)
(* gitversion.                                                             *)
(*                                                                         *)
(* Text is a sequence of tokens: one token per character, except that the  *)
(* two UUID delimiters, a commit hash and a file name are one token each.  *)
(* The module holds one specification per component:                       *)
(*   SpecExec      gitExec and the multi-step operations of class Git      *)
(*   SpecLogs      Git.logs                                                *)
(*   SpecTags      GradleWorkspace.tagPrefix and Git.versionTags           *)
(*   SpecStatus    Git.gitStatusHash                                       *)
(*   SpecManifest  loadGradleBuildFile / updateVersion / persist           *)
(*   SpecProject   GradleProject.initialize                                *)
(***************************************************************************)
EXTENDS Integers, Sequences, FiniteSets, TLC

VARIABLES
    \* ---- gitExec and the operations of class Git
    execOp,        \* the Git method in progress, or "none"
    execState,     \* "idle" | "running" | "resolved" | "rejected"
    execPc,        \* number of git invocations of execOp that returned
    issued,        \* the git invocations execOp issued so far, in order
    opsRun,        \* number of operations started
    \* ---- Git.logs
    history,       \* the commits reachable from HEAD, oldest first
    logsCall,      \* the last call of logs: its arguments and its outcome
    \* ---- tagPrefix and Git.versionTags
    tagConfig,     \* config.options
    repoTags,      \* the tags merged into HEAD
    tagsCall,      \* the last call of versionTags
    \* ---- Git.gitStatusHash
    headCommit,    \* the commit id of HEAD
    modified,      \* the tracked files the working tree has modified
    statusObs,     \* the last observations of gitStatusHash, newest last
    \* ---- the manifest file of one workspace
    mfFile,        \* the text of build.gradle
    mfOriginal,    \* the manifest as first loaded, and the file's newline
    mfWorkspace,   \* the workspace's manifestContent
    mfReloaded,    \* the result of loading the file again
    mfPc,          \* "fresh" | "loaded" | "updated" | "reloaded" | "failed"
    mfVersion,     \* the version given to updateVersion
    \* ---- GradleProject.initialize
    config,        \* initialize.options
    rootFile,      \* build.gradle at cwd
    paths,         \* what the workspaces globs expand to, in glob's order
    childFiles,    \* build.gradle of each path
    initPc,        \* position of initialize
    project,       \* the GradleProject constructed, or Null
    tasks,         \* the promise of each path: pending, fulfilled or rejected
    settleOrder,   \* the paths in the order their promises settled
    initResult     \* what initialize returned: "none" | "null" | "project"

execVars == <<execOp, execState, execPc, issued, opsRun>>
logsVars == <<history, logsCall>>
tagVars == <<tagConfig, repoTags, tagsCall>>
statusVars == <<headCommit, modified, statusObs>>
mfVars == <<mfFile, mfOriginal, mfWorkspace, mfReloaded, mfPc, mfVersion>>
projVars == <<config, rootFile, paths, childFiles, initPc, project, tasks,
              settleOrder, initResult>>
vars == <<execVars, logsVars, tagVars, statusVars, mfVars, projVars>>

Null == [none |-> TRUE]

(***************************************************************************)
(* Bounds of the model.                                                    *)
(***************************************************************************)
\* methods of Git a run calls
MaxOps == 2
\* commits of the history
MaxCommits == 3
\* tags merged into HEAD
MaxTags == 3
\* results of gitStatusHash kept for comparison
MaxObs == 2
\* members of a manifest text
MaxMembers == 3
\* paths the workspaces globs expand to
MaxPaths == 2

(***************************************************************************)
(* Text.                                                                   *)
(***************************************************************************)
delim1 == "E2B4D2F3"
delim2 == "25B7DA41"
LF == "LF"
CR == "CR"
SP == "SP"
BS == "BACKSLASH"

IsWhitespace(c) == c \in {LF, CR, SP}

RECURSIVE TrimStart(_)
TrimStart(s) ==
    IF s # <<>> /\ IsWhitespace(Head(s)) THEN TrimStart(Tail(s)) ELSE s

RECURSIVE TrimEnd(_)
TrimEnd(s) ==
    IF s # <<>> /\ IsWhitespace(s[Len(s)])
    THEN TrimEnd(SubSeq(s, 1, Len(s) - 1))
    ELSE s

\* String.prototype.trim
Trim(s) == TrimEnd(TrimStart(s))

EndsWith(s, suffix) ==
    /\ Len(suffix) <= Len(s)
    /\ SubSeq(s, Len(s) - Len(suffix) + 1, Len(s)) = suffix

\* s.replace(re, '') for a regular expression anchored at the end that matches
\* exactly the texts of `matches`: the leftmost match is the longest suffix.
StripSuffix(s, matches) ==
    LET hits == {m \in matches : EndsWith(s, m)}
    IN  IF hits = {} THEN s
        ELSE LET m == CHOOSE x \in hits : \A y \in hits : Len(y) <= Len(x)
             IN  SubSeq(s, 1, Len(s) - Len(m))

\* endRegex: delim2, then an optional CR, then an optional LF, at the end
StripEndRegex(s) ==
    StripSuffix(s, {<<delim2>>, <<delim2, CR>>, <<delim2, LF>>,
                    <<delim2, CR, LF>>})

\* String.prototype.split on a one-token separator: "" splits to [""]
RECURSIVE Split(_, _)
Split(s, d) ==
    IF \A i \in 1..Len(s) : s[i] # d THEN <<s>>
    ELSE LET i == CHOOSE k \in 1..Len(s) :
                      s[k] = d /\ \A j \in 1..(k - 1) : s[j] # d
         IN  <<SubSeq(s, 1, i - 1)>> \o Split(SubSeq(s, i + 1, Len(s)), d)

\* Array.prototype.join with a one-token separator
RECURSIVE Join(_, _)
Join(parts, d) ==
    IF parts = <<>> THEN <<>>
    ELSE IF Len(parts) = 1 THEN parts[1]
    ELSE parts[1] \o <<d>> \o Join(Tail(parts), d)

RECURSIVE Concat(_)
Concat(parts) ==
    IF parts = <<>> THEN <<>> ELSE Head(parts) \o Concat(Tail(parts))

RECURSIVE IndicesUpTo(_, _)
IndicesUpTo(keep, n) ==
    IF n = 0 THEN <<>>
    ELSE IndicesUpTo(keep, n - 1) \o (IF keep[n] THEN <<n>> ELSE <<>>)

\* the indices Array.prototype.filter keeps: those i with keep[i], increasing
SelectIndices(keep) == IndicesUpTo(keep, Len(keep))

Includes(s, tok) == \E i \in 1..Len(s) : s[i] = tok

(***************************************************************************)
(* gitExec, and the git invocations of each method of class Git.           *)
(***************************************************************************)
\* what crossSpawnAsync hands back: a spawn error, or an exit code
SpawnOutcomes ==
    {[error |-> TRUE, exitCode |-> 0]}
    \cup {[error |-> FALSE, exitCode |-> c] : c \in {0, 1, 128}}

\* gitExec without its test of the exit code
GitExecThrowsOnErrorOnly(output) == output.error

\* gitExec throws on a spawn error and on a non-zero exit code
GitExecThrows(output) == output.error \/ output.exitCode # 0

\* gitExec's result: stdout less a trailing backslash pattern, trimmed. The
\* regular expression /\\r?\\n?$/ matches a backslash, an optional r, a
\* backslash and an optional n at the end. trim() takes the leading blank
\* of the first line of the output with it.
GitExecOutput(stdout) ==
    Trim(StripSuffix(stdout, {<<BS, BS>>, <<BS, "r", BS>>, <<BS, BS, "n">>,
                              <<BS, "r", BS, "n">>}))

\* the methods of Git; currentBranchCI is currentBranch with
\* BUILD_SOURCEBRANCHNAME set, which returns without calling git
GitOps ==
    {"logs", "versionTags", "addTag", "addAndCommitFiles", "push",
     "currentBranch", "currentBranchCI", "gitStatusHash", "currentCommit",
     "cleanChangeLogs", "platform"}

\* the git invocations a method awaits, in order
OpSteps(op) ==
    CASE op = "logs" -> <<"log">>
      [] op = "versionTags" -> <<"tag --list">>
      [] op = "addTag" -> <<"tag -a">>
      [] op = "addAndCommitFiles" -> <<"add", "commit">>
      [] op = "push" -> <<"push">>
      [] op = "currentBranch" -> <<"rev-parse --abbrev-ref HEAD">>
      [] op = "currentBranchCI" -> <<>>
      [] op = "gitStatusHash" -> <<"rev-parse --revs-only HEAD", "status">>
      [] op = "currentCommit" -> <<"rev-parse --verify HEAD">>
      [] op = "cleanChangeLogs" ->
            <<"clean", "checkout CHANGELOG.md", "checkout **/CHANGELOG.md">>
      [] op = "platform" -> <<"rev-parse @{u}", "config --get">>

ExecIdle ==
    /\ execOp = "none"
    /\ execState = "idle"
    /\ execPc = 0
    /\ issued = <<>>
    /\ opsRun = 0

\* a caller calls a method of Git
CallOp(op) ==
    /\ execState \in {"idle", "resolved", "rejected"}
    /\ opsRun < MaxOps
    /\ execOp' = op
    /\ execPc' = 0
    /\ issued' = <<>>
    /\ opsRun' = opsRun + 1
    /\ execState' = IF OpSteps(op) = <<>> THEN "resolved" ELSE "running"
    /\ UNCHANGED <<logsVars, tagVars, statusVars, mfVars, projVars>>

\* the method's next `await gitExec(...)`: the process is spawned and ends
AwaitGitExec(output) ==
    /\ execState = "running"
    /\ issued' = Append(issued, [cmd |-> OpSteps(execOp)[execPc + 1],
                                 step |-> execPc + 1,
                                 error |-> output.error,
                                 exitCode |-> output.exitCode])
    /\ IF GitExecThrows(output)
       THEN /\ execState' = "rejected"
            /\ execPc' = execPc
       ELSE /\ execPc' = execPc + 1
            /\ execState' = IF execPc + 1 = Len(OpSteps(execOp))
                            THEN "resolved" ELSE "running"
    /\ UNCHANGED <<execOp, opsRun>>
    /\ UNCHANGED <<logsVars, tagVars, statusVars, mfVars, projVars>>

ExecCall == \E op \in GitOps : CallOp(op)
ExecAwait == \E output \in SpawnOutcomes : AwaitGitExec(output)

(***************************************************************************)
(* Git.logs.                                                               *)
(***************************************************************************)
HashNames == <<"h1", "h2", "h3", "h4", "h5", "h6">>
DateNames == <<"d1", "d2", "d3", "d4", "d5", "d6">>

\* the subject and the body (git's %b ends each body line with a newline) of
\* the commits the model draws from: a plain commit, one whose body holds
\* blank lines, one whose body quotes the record delimiter and one whose
\* subject quotes the field delimiter
CommitTexts ==
    {[subject |-> <<"s">>, body |-> <<>>],
     [subject |-> <<"t">>, body |-> <<"x", LF, LF, "y", LF>>],
     [subject |-> <<"u">>, body |-> <<"x", delim2, "y", LF>>],
     [subject |-> <<"w", delim1>>, body |-> <<"z", LF>>]}

LogsIdle == history = <<>> /\ logsCall = Null

\* a commit is made: HEAD moves to it
Commit(text, inScope) ==
    /\ Len(history) < MaxCommits
    /\ history' = Append(history,
                         [subject |-> text.subject,
                          body |-> text.body,
                          date |-> DateNames[Len(history) + 1],
                          hash |-> HashNames[Len(history) + 1],
                          inScope |-> inScope])
    /\ UNCHANGED logsCall
    /\ UNCHANGED <<execVars, tagVars, statusVars, mfVars, projVars>>

Reverse(s) == [i \in 1..Len(s) |-> s[Len(s) + 1 - i]]

\* the arguments of logs without --reverse
LogsArgsNoReverse(sinceHash, relativeCwd) ==
    [reverse |-> FALSE, range |-> sinceHash, pathspec |-> relativeCwd]

\* the arguments logs gives to git log: --reverse, the format, `sinceHash..`
\* when sinceHash is given and `-- relativeCwd` when relativeCwd is given
\* ("" stands for an argument not given: both tests are for a truthy string)
LogsArgs(sinceHash, relativeCwd) ==
    [reverse |-> TRUE, range |-> sinceHash, pathspec |-> relativeCwd]

\* one record of the format: %s delim1 %cI delim1 %H delim1 %b delim2
FormatEntry(c) ==
    c.subject \o <<delim1, c.date, delim1, c.hash, delim1>> \o c.body
              \o <<delim2>>

\* what git log prints for `args`: the commits after args.range that touch
\* args.pathspec, newest first unless --reverse, the records separated by a
\* newline (format: is a separator format)
GitLog(hist, args) ==
    LET from == IF args.range = "" THEN 0
                ELSE CHOOSE i \in 1..Len(hist) : hist[i].hash = args.range
        Keep(i) == i > from /\ (args.pathspec = "" \/ hist[i].inScope)
        chosen == SelectIndices([i \in 1..Len(hist) |-> Keep(i)])
        oldestFirst == [k \in 1..Len(chosen) |-> FormatEntry(hist[chosen[k]])]
    IN  Join(IF args.reverse THEN oldestFirst ELSE Reverse(oldestFirst), LF)

\* parseEntry of logs: undefined for an empty entry; the destructuring leaves
\* date, hash or body undefined when the entry has fewer than four fields,
\* and hash.trim() or body.trim() then throws a TypeError
ParseLogEntry(entry) ==
    IF entry = <<>> THEN [kind |-> "undefined"]
    ELSE LET f == Split(entry, delim1)
         IN  IF Len(f) < 4 THEN [kind |-> "throws"]
             ELSE [kind |-> "commit",
                   subject |-> Trim(f[1]),
                   date |-> f[2],
                   hash |-> Trim(f[3]),
                   body |-> Trim(f[4])]

\* output.replace(endRegex, '').split(delim2)
LogEntries(output) == Split(StripEndRegex(output), delim2)

\* .map(parseEntry).filter(e => !!e): the call rejects when parseEntry throws
LogsResult(stdout) ==
    LET entries == LogEntries(GitExecOutput(stdout))
        parsed == [i \in 1..Len(entries) |-> ParseLogEntry(entries[i])]
        Keep(i) == parsed[i].kind = "commit"
        kept == SelectIndices([i \in 1..Len(parsed) |-> Keep(i)])
    IN  IF \E i \in 1..Len(parsed) : parsed[i].kind = "throws"
        THEN [ok |-> FALSE, commits |-> <<>>]
        ELSE [ok |-> TRUE,
              commits |-> [k \in 1..Len(kept) |->
                             [subject |-> parsed[kept[k]].subject,
                              date |-> parsed[kept[k]].date,
                              hash |-> parsed[kept[k]].hash,
                              body |-> parsed[kept[k]].body]]]

\* logs(sinceHash, relativeCwd), git ending with exit code 0
Logs(sinceHash, relativeCwd) ==
    /\ logsCall' = [sinceHash |-> sinceHash,
                    relativeCwd |-> relativeCwd,
                    head |-> Len(history),
                    result |-> LogsResult(GitLog(history,
                                            LogsArgs(sinceHash, relativeCwd)))]
    /\ UNCHANGED history
    /\ UNCHANGED <<execVars, tagVars, statusVars, mfVars, projVars>>

LogsCommit == \E text \in CommitTexts, inScope \in BOOLEAN : Commit(text, inScope)
LogsCall ==
    \E sinceHash \in {""} \cup {history[i].hash : i \in 1..Len(history)},
       relativeCwd \in {"", "pkg"} :
        Logs(sinceHash, relativeCwd)

(***************************************************************************)
(* GradleWorkspace.tagPrefix and Git.versionTags.                          *)
(***************************************************************************)
\* the package names and the versions the model draws from: a manifest's
\* name is any non-empty string
PackageNames == {<<"a">>, <<"b">>, <<"a", "@", "b">>, <<"?">>}
Versions == {<<"1">>, <<"2">>}

\* get tagPrefix
TagPrefix(options, packageName) ==
    IF options.independentVersioning
    THEN options.versionTagPrefix \o packageName \o <<"@">>
    ELSE options.versionTagPrefix

\* git's wildmatch of a tag name against a pattern: * matches any text, ?
\* any one character, anything else itself
RECURSIVE WildMatch(_, _)
WildMatch(pattern, text) ==
    IF pattern = <<>> THEN text = <<>>
    ELSE IF Head(pattern) = "*"
         THEN \/ WildMatch(Tail(pattern), text)
              \/ text # <<>> /\ WildMatch(pattern, Tail(text))
    ELSE IF Head(pattern) = "?"
         THEN text # <<>> /\ WildMatch(Tail(pattern), Tail(text))
    ELSE text # <<>> /\ Head(text) = Head(pattern)
                     /\ WildMatch(Tail(pattern), Tail(text))

Orderings(S) ==
    {f \in [1..Cardinality(S) -> S] :
        \A i, j \in 1..Cardinality(S) : f[i] = f[j] => i = j}

\* the pattern versionTags gives to git tag --list --merged=HEAD
PrefixFilter(prefix) == prefix \o <<"*">>

\* the tags git tag --list --merged=HEAD selects for a pattern
MatchingTags(pattern) == {t \in repoTags : WildMatch(pattern, t.tagName)}

\* what git tag --list prints for `listed`, the matching tags in git's order:
\* %(objectname) delim1 %(refname:strip=2) delim2 and a newline for each
GitTagList(listed) ==
    Concat([i \in 1..Len(listed) |->
              <<listed[i].hash, delim1>> \o listed[i].tagName
                  \o <<delim2, LF>>])

\* parseEntry of versionTags
ParseTagEntry(entry) ==
    IF entry = <<>> THEN [kind |-> "undefined"]
    ELSE LET f == Split(Trim(entry), delim1)
         IN  [kind |-> "tag",
              hash |-> f[1],
              tagName |-> IF Len(f) >= 2 THEN f[2] ELSE <<"undefined">>]

\* output.replace(endRegex, '').split(delim2).map(parseEntry).filter(...)
VersionTagsResult(stdout) ==
    LET entries == Split(StripEndRegex(GitExecOutput(stdout)), delim2)
        parsed == [i \in 1..Len(entries) |-> ParseTagEntry(entries[i])]
        Keep(i) == parsed[i].kind = "tag"
        kept == SelectIndices([i \in 1..Len(parsed) |-> Keep(i)])
    IN  [k \in 1..Len(kept) |->
            [hash |-> parsed[kept[k]].hash, tagName |-> parsed[kept[k]].tagName]]

TagsIdle == tagConfig = Null /\ repoTags = {} /\ tagsCall = Null

\* addTag(tag, message): an annotated tag at HEAD
AddTag(tag) ==
    /\ Cardinality(repoTags) < MaxTags
    /\ \A t \in repoTags : t.tagName # tag
    /\ repoTags' = repoTags \cup
                      {[tagName |-> tag,
                        hash |-> HashNames[Cardinality(repoTags) + 1]]}
    /\ UNCHANGED <<tagConfig, tagsCall>>
    /\ UNCHANGED <<execVars, logsVars, statusVars, mfVars, projVars>>

\* versionTags(workspace.tagPrefix) for the workspace named packageName, git
\* ending with exit code 0
VersionTags(packageName, listed) ==
    /\ tagsCall' = [packageName |-> packageName,
                    prefix |-> TagPrefix(tagConfig, packageName),
                    result |-> VersionTagsResult(GitTagList(listed))]
    /\ UNCHANGED <<tagConfig, repoTags>>
    /\ UNCHANGED <<execVars, logsVars, statusVars, mfVars, projVars>>

TagsAdd ==
    \E packageName \in PackageNames, version \in Versions :
        AddTag(TagPrefix(tagConfig, packageName) \o version)
TagsCall ==
    \E packageName \in PackageNames :
        \E listed \in Orderings(
                MatchingTags(PrefixFilter(TagPrefix(tagConfig, packageName)))) :
            VersionTags(packageName, listed)

(***************************************************************************)
(* Git.gitStatusHash.                                                      *)
(***************************************************************************)
\* the tracked files of the working tree, in the order git status lists them
TrackedFiles ==
    <<<<"build.gradle">>, <<"lib", "/", "CHANGELOG.md">>, <<"package.json">>,
      <<"src", "/", "index.ts">>>>

\* commits made while the fingerprint is watched
MaxHeadMoves == 1

\* git rev-parse --revs-only HEAD
GitRevParseHead(head) == <<head, LF>>

\* git status --porcelain: a line " M <path>" for each modified tracked file
GitStatusPorcelain(mods) ==
    LET Keep(i) == TrackedFiles[i] \in mods
        listed == SelectIndices([i \in 1..Len(TrackedFiles) |-> Keep(i)])
    IN  Concat([k \in 1..Len(listed) |->
                  <<SP, "M", SP>> \o TrackedFiles[listed[k]] \o <<LF>>])

\* the status lines gitStatusHash keeps: those that include neither
\* 'package.json' nor 'CHANGELOG.md'
KeepStatusLine(l) == ~(Includes(l, "package.json") \/ Includes(l, "CHANGELOG.md"))

\* createHash('sha256') over the data given to update(), to base64: taken to be
\* free of collisions, so the digest stands for the data
Sha256(data) == [digest |-> data]

\* gitStatusHash, both git invocations ending with exit code 0
StatusHash(head, mods) ==
    LET commit == GitExecOutput(GitRevParseHead(head))
        status == GitExecOutput(GitStatusPorcelain(mods))
        lines == Split(status, LF)
        Keep(i) == KeepStatusLine(lines[i])
        kept == SelectIndices([i \in 1..Len(lines) |-> Keep(i)])
        cleanedStatus == Join([k \in 1..Len(kept) |-> lines[kept[k]]], LF)
    IN  Sha256(commit \o cleanedStatus)

StatusIdle == headCommit = "none" /\ modified = {} /\ statusObs = <<>>

\* a tracked file is edited in the working tree
ModifyFile(f) ==
    /\ f \notin modified
    /\ modified' = modified \cup {f}
    /\ UNCHANGED <<headCommit, statusObs>>
    /\ UNCHANGED <<execVars, logsVars, tagVars, mfVars, projVars>>

\* the edit of a file is undone (git checkout <path>)
RestoreFile(f) ==
    /\ f \in modified
    /\ modified' = modified \ {f}
    /\ UNCHANGED <<headCommit, statusObs>>
    /\ UNCHANGED <<execVars, logsVars, tagVars, mfVars, projVars>>

\* the modified files are committed: HEAD moves
CommitWorkingTree ==
    /\ modified # {}
    /\ \E i \in 1..MaxHeadMoves :
          headCommit = HashNames[i] /\ headCommit' = HashNames[i + 1]
    /\ modified' = {}
    /\ UNCHANGED statusObs
    /\ UNCHANGED <<execVars, logsVars, tagVars, mfVars, projVars>>

\* a call of gitStatusHash; the model keeps the last MaxObs results
GitStatusHash ==
    /\ LET obs == [head |-> headCommit, modified |-> modified,
                   hash |-> StatusHash(headCommit, modified)]
           all == Append(statusObs, obs)
       IN  statusObs' = IF Len(all) > MaxObs THEN Tail(all) ELSE all
    /\ UNCHANGED <<headCommit, modified>>
    /\ UNCHANGED <<execVars, logsVars, tagVars, mfVars, projVars>>

StatusModify == \E i \in 1..Len(TrackedFiles) : ModifyFile(TrackedFiles[i])
StatusRestore == \E i \in 1..Len(TrackedFiles) : RestoreFile(TrackedFiles[i])

(***************************************************************************)
(* The manifest file: JSON.parse, isGradleBuildFile, loadGradleBuildFile,  *)
(* GradleWorkspace, updateVersion, JSON.stringify, persistGradleBuildFile. *)
(*                                                                         *)
(* A JSON text is its members as written (key and literal, duplicates      *)
(* allowed), the indentation it is written with and what follows the       *)
(* closing brace. A literal or a value is [t |-> type, v |-> text].        *)
(***************************************************************************)
Str(v) == [t |-> "str", v |-> v]
Num(v) == [t |-> "num", v |-> v]

\* the members the model writes manifests from
MemberChoices ==
    {[key |-> "name", lit |-> Str("a")],
     [key |-> "name", lit |-> Str("")],
     [key |-> "name", lit |-> Num("1")],
     [key |-> "version", lit |-> Str("1.0.0")],
     [key |-> "private", lit |-> [t |-> "bool", v |-> "true"]],
     [key |-> "workspaces", lit |-> [t |-> "arr", v |-> "packages/*"]],
     [key |-> "x", lit |-> Num("1")],
     [key |-> "x", lit |-> Num("1e400")],
     [key |-> "7", lit |-> Str("q")]}

VersionStrings == {"1.0.1", "2.0.0"}

MissingFile == [kind |-> "missing"]
GarbageFile == [kind |-> "garbage"]
JsonFile(members, indent, eol) ==
    [kind |-> "json", members |-> members, indent |-> indent, eol |-> eol]

\* the value JSON.parse gives a literal: a number literal beyond the range of
\* a double is Infinity
ParseLiteral(lit) ==
    IF lit.t = "num" /\ lit.v = "1e400" THEN Num("Infinity") ELSE lit

\* the literal JSON.stringify writes for a value: null for a number that is
\* not finite
StringifyValue(val) ==
    IF val.t = "num" /\ val.v = "Infinity" THEN [t |-> "null", v |-> "null"]
    ELSE val

\* keys that are array indices come first in a JavaScript object, ascending
IsArrayIndex(key) == key \in {"7"}

HasKey(obj, key) == \E i \in 1..Len(obj) : obj[i].key = key
Get(obj, key) == obj[CHOOSE i \in 1..Len(obj) : obj[i].key = key].val

\* obj[key] = val: an own property keeps its place, a new one goes last, or,
\* an array index, before the keys that are not array indices
SetProperty(obj, key, val) ==
    IF HasKey(obj, key)
    THEN [i \in 1..Len(obj) |->
            IF obj[i].key = key THEN [key |-> key, val |-> val] ELSE obj[i]]
    ELSE IF IsArrayIndex(key)
         THEN <<[key |-> key, val |-> val]>> \o obj
         ELSE Append(obj, [key |-> key, val |-> val])

RECURSIVE ParseMembers(_, _)
ParseMembers(members, obj) ==
    IF members = <<>> THEN obj
    ELSE ParseMembers(Tail(members),
                      SetProperty(obj, Head(members).key,
                                  ParseLiteral(Head(members).lit)))

\* JSON.parse of a manifest text
JsonParse(file) == ParseMembers(file.members, <<>>)

\* JSON.stringify(manifest, null, 2): the own properties in their order, two
\* spaces of indentation, nothing after the closing brace
JsonStringify(obj) ==
    JsonFile([i \in 1..Len(obj) |->
                [key |-> obj[i].key, lit |-> StringifyValue(obj[i].val)]],
             2, <<>>)

\* stringContent.endsWith('\n')
EndsWithNewline(file) == EndsWith(file.eol, <<LF>>)

\* isGradleBuildFile: name a string; version, private and workspaces absent or
\* a string, a boolean and an array of strings; other keys allowed
IsGradleBuildFile(obj) ==
    /\ HasKey(obj, "name") /\ Get(obj, "name").t = "str"
    /\ HasKey(obj, "version") => Get(obj, "version").t = "str"
    /\ HasKey(obj, "private") => Get(obj, "private").t = "bool"
    /\ HasKey(obj, "workspaces") => Get(obj, "workspaces").t = "arr"

\* loadGradleBuildFile: readFile or JSON.parse throws, or the result is null
\* or the manifest content
LoadGradleBuildFile(file) ==
    IF file.kind = "missing" THEN [kind |-> "throws", error |-> "ENOENT"]
    ELSE IF file.kind = "garbage"
         THEN [kind |-> "throws", error |-> "SyntaxError"]
    ELSE IF IsGradleBuildFile(JsonParse(file))
         THEN [kind |-> "content",
               manifest |-> JsonParse(file),
               eofInEnd |-> EndsWithNewline(file)]
    ELSE [kind |-> "null"]

\* the constructor of GradleWorkspace throws when !manifest.name
ConstructorThrows(manifest) == Get(manifest, "name").v = ""

\* persistGradleBuildFile without its test of eofInEnd
PersistAlwaysNewline(manifestContent) ==
    LET text == JsonStringify(manifestContent.manifest)
    IN  JsonFile(text.members, text.indent, <<LF>>)

\* persistGradleBuildFile: the text written
PersistGradleBuildFile(manifestContent) ==
    LET text == JsonStringify(manifestContent.manifest)
    IN  JsonFile(text.members, text.indent,
                 IF manifestContent.eofInEnd THEN <<LF>> ELSE <<>>)

\* { ...this.manifest, version }
WithVersion(manifest, version) == SetProperty(manifest, "version", Str(version))

ManifestIdle ==
    /\ mfFile = Null
    /\ mfOriginal = Null
    /\ mfWorkspace = Null
    /\ mfReloaded = Null
    /\ mfPc = "idle"
    /\ mfVersion = ""

\* the manifest texts of at most MaxMembers members the model starts from
RECURSIVE MemberSeqs(_)
MemberSeqs(n) ==
    IF n = 0 THEN {<<>>}
    ELSE LET shorter == MemberSeqs(n - 1)
         IN  shorter \cup {Append(m, c) : m \in shorter, c \in MemberChoices}

ManifestFiles ==
    {MissingFile, GarbageFile}
    \cup {JsonFile(m, indent, eol) :
            m \in MemberSeqs(MaxMembers), indent \in {2, 4},
            eol \in {<<>>, <<LF>>, <<CR, LF>>}}

\* the workspace is loaded: loadGradleBuildFile, then new GradleWorkspace
LoadWorkspace ==
    /\ mfPc = "fresh"
    /\ LET loaded == LoadGradleBuildFile(mfFile)
       IN  IF loaded.kind = "content" /\ ~ConstructorThrows(loaded.manifest)
           THEN /\ mfPc' = "loaded"
                /\ mfWorkspace' = [manifest |-> loaded.manifest,
                                   eofInEnd |-> loaded.eofInEnd]
                /\ mfOriginal' = [manifest |-> loaded.manifest, file |-> mfFile]
           ELSE /\ mfPc' = "failed"
                /\ UNCHANGED <<mfWorkspace, mfOriginal>>
    /\ UNCHANGED <<mfFile, mfReloaded, mfVersion>>
    /\ UNCHANGED <<execVars, logsVars, tagVars, statusVars, projVars>>

\* updateVersion(version): the manifest gets the version and is persisted
UpdateVersion(version) ==
    /\ mfPc \in {"loaded", "updated", "reloaded"}
    /\ LET content == [manifest |-> WithVersion(mfWorkspace.manifest, version),
                       eofInEnd |-> mfWorkspace.eofInEnd]
       IN  /\ mfWorkspace' = content
           /\ mfFile' = PersistGradleBuildFile(content)
    /\ mfVersion' = version
    /\ mfPc' = "updated"
    /\ mfReloaded' = Null
    /\ UNCHANGED mfOriginal
    /\ UNCHANGED <<execVars, logsVars, tagVars, statusVars, projVars>>

\* loadGradleBuildFile of the same folder, after updateVersion
ReloadManifest ==
    /\ mfPc = "updated"
    /\ mfReloaded' = LoadGradleBuildFile(mfFile)
    /\ mfPc' = "reloaded"
    /\ UNCHANGED <<mfFile, mfOriginal, mfWorkspace, mfVersion>>
    /\ UNCHANGED <<execVars, logsVars, tagVars, statusVars, projVars>>

ManifestUpdate == \E version \in VersionStrings : UpdateVersion(version)

(***************************************************************************)
(* GradleProject.initialize.                                               *)
(***************************************************************************)
PathNames == <<"packages/p1", "packages/p2", "packages/p3", "packages/p4">>

NameMember(n) == [key |-> "name", lit |-> Str(n)]
PrivateMember(b) == [key |-> "private", lit |-> [t |-> "bool", v |-> b]]
WorkspacesMember == [key |-> "workspaces", lit |-> [t |-> "arr", v |-> "packages/*"]]

\* build.gradle of a candidate path: absent, not JSON, without a name, with
\* an empty name, or named, each private or not
ChildFiles ==
    {MissingFile, GarbageFile}
    \cup {JsonFile(m, 2, <<LF>>) :
            m \in {<<>>,
                   <<NameMember("")>>,
                   <<NameMember(""), PrivateMember("true")>>,
                   <<NameMember("a")>>,
                   <<NameMember("a"), PrivateMember("true")>>,
                   <<NameMember("a"), PrivateMember("false")>>,
                   <<NameMember("b")>>}}

\* build.gradle at cwd
RootFiles ==
    {MissingFile, GarbageFile}
    \cup {JsonFile(m, 2, <<LF>>) :
            m \in {<<>>,
                   <<NameMember("")>>,
                   <<NameMember("a")>>,
                   <<NameMember("a"), WorkspacesMember>>,
                   <<NameMember("b"), WorkspacesMember>>}}

DeclaresWorkspaces(file) ==
    /\ file.kind = "json"
    /\ \E i \in 1..Len(file.members) : file.members[i].key = "workspaces"

\* the one GradleProject of a run: what _project refers to
ProjectRef == "project"

\* new GradleWorkspace(project, relativeCwd, manifestContent)
GradleWorkspace(ref, relativeCwd, manifestContent) ==
    [project |-> ref, relativeCwd |-> relativeCwd,
     manifestContent |-> manifestContent]

PackageName(workspace) == Get(workspace.manifestContent.manifest, "name").v

\* get private: manifest.private ?? false
IsPrivate(manifest) ==
    HasKey(manifest, "private") /\ Get(manifest, "private").v = "true"

\* the body of the async callback of paths.map, for the manifest at `path`:
\* the promise rejects, or is fulfilled with undefined or with a workspace
WorkspacePromise(path, file) ==
    LET loaded == LoadGradleBuildFile(file)
    IN  IF loaded.kind = "throws"
        THEN [state |-> "rejected", error |-> loaded.error]
        ELSE IF loaded.kind = "content" /\ ~IsPrivate(loaded.manifest)
             THEN IF ConstructorThrows(loaded.manifest)
                  THEN [state |-> "rejected", error |-> "Invalid manifest"]
                  ELSE [state |-> "fulfilled",
                        value |-> GradleWorkspace(ProjectRef, path,
                                     [manifest |-> loaded.manifest,
                                      eofInEnd |-> loaded.eofInEnd])]
        ELSE [state |-> "fulfilled", value |-> Null]

\* the values in the order the promises settled in
JoinedInSettleOrder(settled) ==
    LET Keep(k) == settled[settleOrder[k]].value # Null
        kept == SelectIndices([i \in 1..Len(settleOrder) |-> Keep(i)])
    IN  [k \in 1..Len(kept) |-> settled[settleOrder[kept[k]]].value]

\* workspaces.filter(workspace => !!workspace) of what Promise.all resolves
\* to: the values in the order of the promises
JoinedWorkspaces(settled) ==
    LET Keep(i) == settled[i].value # Null
        kept == SelectIndices([i \in 1..Len(settled) |-> Keep(i)])
    IN  [k \in 1..Len(kept) |-> settled[kept[k]].value]

\* get workspaces: the project, then its child workspaces
Workspaces(p) ==
    <<GradleWorkspace(p.project, ".", p.manifestContent)>> \o p.childWorkspaces

\* tagPrefix of a workspace of the project
WorkspaceTagPrefix(workspace) == TagPrefix(config, <<PackageName(workspace)>>)

ProjectIdle ==
    /\ config = Null
    /\ rootFile = Null
    /\ paths = <<>>
    /\ childFiles = <<>>
    /\ initPc = "idle"
    /\ project = Null
    /\ tasks = <<>>
    /\ settleOrder = <<>>
    /\ initResult = "none"

\* initialize up to Promise.all: the root manifest is loaded, the project is
\* constructed, the globs are expanded and every path's load is started
InitializeStart ==
    /\ initPc = "start"
    /\ LET loaded == LoadGradleBuildFile(rootFile)
       IN  IF loaded.kind = "throws" THEN
                /\ initPc' = "rejected"
                /\ UNCHANGED <<project, tasks, initResult>>
           ELSE IF loaded.kind = "null" THEN
                /\ initPc' = "returned"
                /\ initResult' = "null"
                /\ UNCHANGED <<project, tasks>>
           ELSE IF ConstructorThrows(loaded.manifest) THEN
                /\ initPc' = "rejected"
                /\ UNCHANGED <<project, tasks, initResult>>
           ELSE /\ project' = [project |-> ProjectRef,
                               manifestContent |->
                                   [manifest |-> loaded.manifest,
                                    eofInEnd |-> loaded.eofInEnd],
                               childWorkspaces |-> <<>>]
                /\ IF HasKey(loaded.manifest, "workspaces")
                   THEN /\ initPc' = "awaitAll"
                        /\ tasks' = [i \in 1..Len(paths) |->
                                        [state |-> "pending"]]
                        /\ UNCHANGED initResult
                   ELSE /\ initPc' = "returned"
                        /\ initResult' = "project"
                        /\ UNCHANGED tasks
    /\ UNCHANGED <<config, rootFile, paths, childFiles, settleOrder>>
    /\ UNCHANGED <<execVars, logsVars, tagVars, statusVars, mfVars>>

\* the load of one path ends and its promise settles
SettleTask(i) ==
    /\ i \in 1..Len(tasks)
    /\ tasks[i].state = "pending"
    /\ tasks' = [tasks EXCEPT ![i] = WorkspacePromise(paths[i], childFiles[i])]
    /\ settleOrder' = Append(settleOrder, i)
    /\ UNCHANGED <<config, rootFile, paths, childFiles, initPc, project,
                   initResult>>
    /\ UNCHANGED <<execVars, logsVars, tagVars, statusVars, mfVars>>

\* Promise.all rejects as soon as one promise has: initialize rejects
AwaitAllRejected ==
    /\ initPc = "awaitAll"
    /\ \E i \in 1..Len(tasks) : tasks[i].state = "rejected"
    /\ initPc' = "rejected"
    /\ UNCHANGED <<config, rootFile, paths, childFiles, project, tasks,
                   settleOrder, initResult>>
    /\ UNCHANGED <<execVars, logsVars, tagVars, statusVars, mfVars>>

\* Promise.all is fulfilled: childWorkspaces is assigned and the project
\* returned
AwaitAllFulfilled ==
    /\ initPc = "awaitAll"
    /\ \A i \in 1..Len(tasks) : tasks[i].state = "fulfilled"
    /\ project' = [project EXCEPT !.childWorkspaces = JoinedWorkspaces(tasks)]
    /\ initPc' = "returned"
    /\ initResult' = "project"
    /\ UNCHANGED <<config, rootFile, paths, childFiles, tasks, settleOrder>>
    /\ UNCHANGED <<execVars, logsVars, tagVars, statusVars, mfVars>>

ProjectSettle == \E i \in 1..Len(tasks) : SettleTask(i)

(***************************************************************************)
(* SpecExec: callers call the methods of Git one after another.            *)
(***************************************************************************)
InitExec ==
    ExecIdle /\ LogsIdle /\ TagsIdle /\ StatusIdle /\ ManifestIdle /\ ProjectIdle
NextExec == ExecCall \/ ExecAwait
SpecExec == InitExec /\ [][NextExec]_vars

\* C9: a failed git invocation (a spawn error or a non-zero exit) rejects the
\* operation at once: it is the last invocation the operation issues, so it is
\* not issued again and no later step (commit after a failed add) runs; every
\* step is issued once, in order; and an operation is rejected only by such a
\* failure.
C9_FailureIsFatal ==
    /\ \A i \in 1..Len(issued) :
          (issued[i].error \/ issued[i].exitCode # 0)
              => i = Len(issued) /\ execState = "rejected"
    /\ \A i \in 1..Len(issued) : issued[i].step = i
    /\ execState = "rejected" =>
          /\ issued # <<>>
          /\ LET last == issued[Len(issued)]
             IN  last.error \/ last.exitCode # 0
    /\ execState = "resolved" => Len(issued) = Len(OpSteps(execOp))

\* addAndCommitFiles rejected by a failed add, commit never issued
C9_Witness ==
    /\ execOp = "addAndCommitFiles"
    /\ execState = "rejected"
    /\ Len(issued) = 1
    /\ issued[1].cmd = "add"
    /\ issued[1].exitCode = 1

(***************************************************************************)
(* SpecLogs: commits are made and logs is called.                          *)
(***************************************************************************)
InitLogs ==
    /\ history = <<>>
    /\ logsCall = Null
    /\ ExecIdle /\ TagsIdle /\ StatusIdle /\ ManifestIdle /\ ProjectIdle
NextLogs == LogsCommit \/ LogsCall
SpecLogs == InitLogs /\ [][NextLogs]_vars

\* the commits a call of logs asks for, as indices of history, oldest first:
\* those after sinceHash, made before the call, that touch relativeCwd
RequestedRange(call) ==
    LET from == IF call.sinceHash = "" THEN 0
                ELSE CHOOSE i \in 1..Len(history) :
                        history[i].hash = call.sinceHash
        Keep(i) == /\ i > from
                   /\ call.relativeCwd = "" \/ history[i].inScope
    IN  SelectIndices([i \in 1..call.head |-> Keep(i)])

OneCommitEach(call) ==
    LET range == RequestedRange(call)
        commits == call.result.commits
    IN  /\ call.result.ok
        /\ Len(commits) = Len(range)
        /\ \A k \in 1..Len(range) :
              /\ commits[k].hash = <<history[range[k]].hash>>
              /\ commits[k].date = <<history[range[k]].date>>
              /\ commits[k].body = Trim(history[range[k]].body)

QuotesDelimiter(c) ==
    \/ Includes(c.subject, delim1) \/ Includes(c.subject, delim2)
    \/ Includes(c.body, delim1) \/ Includes(c.body, delim2)

DelimiterFree(call) ==
    \A k \in 1..Len(RequestedRange(call)) :
        ~QuotesDelimiter(history[RequestedRange(call)[k]])

InitTags ==
    /\ tagConfig \in [independentVersioning : BOOLEAN,
                      versionTagPrefix : {<<"v">>}]
    /\ repoTags = {}
    /\ tagsCall = Null
    /\ ExecIdle /\ LogsIdle /\ StatusIdle /\ ManifestIdle /\ ProjectIdle
NextTags == TagsAdd \/ TagsCall
SpecTags == InitTags /\ [][NextTags]_vars

\* C1: in independent mode, versionTags called with the tagPrefix of one
\* package never returns a tag of a package of another name (that package's
\* tagPrefix followed by a version).
C1_NoForeignTags ==
    (tagsCall # Null /\ tagConfig.independentVersioning) =>
        \A k \in 1..Len(tagsCall.result) :
            \A other \in PackageNames \ {tagsCall.packageName} :
                \A version \in Versions :
                    tagsCall.result[k].tagName
                        # TagPrefix(tagConfig, other) \o version

(***************************************************************************)
(* SpecStatus: the working tree changes and gitStatusHash is called.       *)
(***************************************************************************)
InitStatus ==
    /\ headCommit = HashNames[1]
    /\ modified = {}
    /\ statusObs = <<>>
    /\ ExecIdle /\ LogsIdle /\ TagsIdle /\ ManifestIdle /\ ProjectIdle
NextStatus == StatusModify \/ StatusRestore \/ CommitWorkingTree \/ GitStatusHash
SpecStatus == InitStatus /\ [][NextStatus]_vars

\* the manifest of every supported build system, and the changelog
IsGenerated(f) ==
    f[Len(f)] \in {"package.json", "build.gradle", "CHANGELOG.md"}

\* C8: of two results of gitStatusHash at the same commit, the fingerprints
\* are equal when the working trees are the same, differ when the trees
\* differ in a file that is neither manifest nor changelog, and are equal
\* when the trees differ in manifest and changelog files only.
C8_FingerprintStable ==
    \A i, j \in 1..Len(statusObs) :
        LET a == statusObs[i]
            b == statusObs[j]
            diff == (a.modified \ b.modified) \cup (b.modified \ a.modified)
        IN  a.head = b.head =>
              /\ diff = {} => a.hash = b.hash
              /\ (\E f \in diff : ~IsGenerated(f)) => a.hash # b.hash
              /\ (\A f \in diff : IsGenerated(f)) => a.hash = b.hash

(***************************************************************************)
(* SpecManifest: a workspace is loaded from a manifest, its version is     *)
(* updated and the manifest is loaded again.                               *)
(***************************************************************************)
InitManifest ==
    /\ mfFile \in ManifestFiles
    /\ mfOriginal = Null
    /\ mfWorkspace = Null
    /\ mfReloaded = Null
    /\ mfPc = "fresh"
    /\ mfVersion = ""
    /\ ExecIdle /\ LogsIdle /\ TagsIdle /\ StatusIdle /\ ProjectIdle
NextManifest == LoadWorkspace \/ ManifestUpdate \/ ReloadManifest
SpecManifest == InitManifest /\ [][NextManifest]_vars

WithoutVersion(obj) ==
    LET Keep(i) == obj[i].key # "version"
        kept == SelectIndices([i \in 1..Len(obj) |-> Keep(i)])
    IN  [k \in 1..Len(kept) |-> obj[kept[k]]]

RoundTrip ==
    /\ mfReloaded.kind = "content"
    /\ WithoutVersion(mfReloaded.manifest) = WithoutVersion(mfOriginal.manifest)
    /\ HasKey(mfReloaded.manifest, "version")
    /\ Get(mfReloaded.manifest, "version") = Str(mfVersion)
    /\ EndsWith(mfFile.eol, <<LF>>) <=> EndsWith(mfOriginal.file.eol, <<LF>>)

AllNumbersFinite(obj) ==
    \A i \in 1..Len(obj) : ~(obj[i].val.t = "num" /\ obj[i].val.v = "Infinity")

\* C6 as stated: for every loadable manifest and version v, updateVersion(v)
\* and a reload give the original manifest in every field but version, in the
\* same key order, with version v, the file ending with a newline exactly
\* when the original did.
C6_RoundTrip == mfPc = "reloaded" => RoundTrip

\* C6 amended: the same, for the manifests none of whose number literals is
\* beyond the range of a double.
C6_RoundTripOfFiniteNumbers ==
    (mfPc = "reloaded" /\ AllNumbersFinite(mfOriginal.manifest)) => RoundTrip

\* a manifest with a version, another key and no final newline went round
C6_Witness ==
    /\ mfPc = "reloaded"
    /\ AllNumbersFinite(mfOriginal.manifest)
    /\ HasKey(mfOriginal.manifest, "version")
    /\ HasKey(mfOriginal.manifest, "x")
    /\ ~EndsWith(mfOriginal.file.eol, <<LF>>)
    /\ mfOriginal.file.indent = 4

(***************************************************************************)
(* SpecProject: GradleProject.initialize on a repository.                  *)
(***************************************************************************)
InitProject ==
    /\ config \in [independentVersioning : BOOLEAN, versionTagPrefix : {<<"v">>}]
    /\ rootFile \in RootFiles
    /\ \E n \in 0..MaxPaths :
          /\ n > 0 => DeclaresWorkspaces(rootFile)
          /\ paths = SubSeq(PathNames, 1, n)
          /\ childFiles \in [1..n -> ChildFiles]
    /\ initPc = "start"
    /\ project = Null
    /\ tasks = <<>>
    /\ settleOrder = <<>>
    /\ initResult = "none"
    /\ ExecIdle /\ LogsIdle /\ TagsIdle /\ StatusIdle /\ ManifestIdle
NextProject ==
    InitializeStart \/ ProjectSettle \/ AwaitAllRejected \/ AwaitAllFulfilled
SpecProject == InitProject /\ [][NextProject]_vars

Finished == initPc \in {"returned", "rejected"}

\* C2: the workspaces of a returned project have pairwise different tag
\* prefixes under independentVersioning, and all the tag prefix
\* versionTagPrefix otherwise.
C2_TagPrefixes ==
    initResult = "project" =>
        LET ws == Workspaces(project)
        IN  IF config.independentVersioning
            THEN \A i, j \in 1..Len(ws) :
                    WorkspaceTagPrefix(ws[i]) = WorkspaceTagPrefix(ws[j]) => i = j
            ELSE \A i \in 1..Len(ws) :
                    WorkspaceTagPrefix(ws[i]) = config.versionTagPrefix

\* what a candidate's build.gradle is, read off the file itself
FileHasKey(file, key) ==
    \E i \in 1..Len(file.members) : file.members[i].key = key
FileValue(file, key) ==
    file.members[CHOOSE i \in 1..Len(file.members) :
                    file.members[i].key = key].lit
FailsToLoad(file) ==
    \/ file.kind \in {"missing", "garbage"}
    \/ ~FileHasKey(file, "name")
    \/ FileValue(file, "name").t # "str"
MarkedPrivate(file) ==
    /\ file.kind = "json"
    /\ FileHasKey(file, "private")
    /\ FileValue(file, "private") = [t |-> "bool", v |-> "true"]
NoPackageName(file) ==
    /\ file.kind = "json"
    /\ ~FileHasKey(file, "name") \/ FileValue(file, "name") = Str("")

AcceptedPaths ==
    LET Keep(i) == ~FailsToLoad(childFiles[i]) /\ ~MarkedPrivate(childFiles[i])
        kept == SelectIndices([i \in 1..Len(paths) |-> Keep(i)])
    IN  [k \in 1..Len(kept) |-> paths[kept[k]]]

ChildPaths == [k \in 1..Len(project.childWorkspaces) |->
                 project.childWorkspaces[k].relativeCwd]

\* C3: once the project is constructed, initialize returns it, and its
\* childWorkspaces are the candidates that load and are not marked private:
\* a candidate that fails to load or is private is left out. (Candidates
\* without a package name, which C5 is about, are set aside.)
C3_FailedCandidatesExcluded ==
    (/\ Finished
     /\ project # Null
     /\ \A i \in 1..Len(paths) : ~NoPackageName(childFiles[i]))
        => /\ initResult = "project"
           /\ ChildPaths = AcceptedPaths

\* C4: with no build.gradle at cwd, initialize returns null and raises no
\* error.
C4_NoRootManifestIsNull ==
    (Finished /\ rootFile.kind = "missing") => initResult = "null"

\* C5: a child manifest without a package name (absent or empty), private or
\* not, makes initialize fail, and no workspace with an empty or missing name
\* is constructed.
C5_NamelessChildIsFatal ==
    /\ (/\ Finished
        /\ project # Null
        /\ \E i \in 1..Len(paths) : NoPackageName(childFiles[i]))
           => initPc = "rejected"
    /\ project # Null =>
          \A k \in 1..Len(Workspaces(project)) :
              PackageName(Workspaces(project)[k]) # ""

\* the workspaces of the accepted candidates, in the order of the paths
ExpectedChildren ==
    LET Keep(i) == ~FailsToLoad(childFiles[i]) /\ ~MarkedPrivate(childFiles[i])
        kept == SelectIndices([i \in 1..Len(paths) |-> Keep(i)])
    IN  [k \in 1..Len(kept) |->
            [project |-> ProjectRef,
             relativeCwd |-> paths[kept[k]],
             manifestContent |->
                [manifest |-> JsonParse(childFiles[kept[k]]),
                 eofInEnd |-> EndsWith(childFiles[kept[k]].eol, <<LF>>)]]]

AllSettled == \A i \in 1..Len(tasks) : tasks[i].state # "pending"

\* C10: whatever the order in which the loads end, the childWorkspaces of the
\* returned project are the accepted candidates' workspaces in the order of
\* the paths, each referring to the project; and childWorkspaces changes
\* only in the step that returns, taken when every load has ended.
C10_JoinIsOrderIndependent ==
    /\ [](initResult = "project" =>
            /\ project.childWorkspaces = ExpectedChildren
            /\ project.project = ProjectRef)
    /\ [][(project # Null /\ project' # project) =>
            /\ AllSettled
            /\ initPc = "awaitAll" /\ initPc' = "returned"]_vars

\* two candidates were accepted and the second load ended first
C10_Witness ==
    /\ initResult = "project"
    /\ Len(project.childWorkspaces) = 2
    /\ settleOrder = <<2, 1>>
====
